---- MODULE Spec2Model ----
(***************************************************************************)
(* Model of src/helloworld/main.cpp: a BGI program that draws a jet        *)
(* flying from left to right.  main() is a straight-line program with one  *)
(* for loop; drawJet() is a sequence of eleven library calls.  The model   *)
(* keeps                                                                   *)
(*   - the program counter of main and of the active drawJet call,         *)
(*   - the state of the graphics library (graphresult, whether a surface   *)
(*     is held, draw colour, fill style, background, and the surface as    *)
(*     the list of primitives rendered since the last clear, each with the *)
(*     colours it was rendered with),                                      *)
(*   - the keyboard buffer that getch() reads from,                        *)
(*   - the history of the calls main has issued.                           *)
(***************************************************************************)
EXTENDS Integers, Sequences, FiniteSets

VARIABLES pc, x, W, H, g, log, calls, djpc, jx, jy, kbuf, pressed, keyInLoop,
          exitCode, first

vars == <<pc, x, W, H, g, log, calls, djpc, jx, jy, kbuf, pressed, keyInLoop,
          exitCode, first>>

(***************************************************************************)
(* Bounds of the model and constants of the program.                       *)
(***************************************************************************)
MaxW == 12
MaxKeys == 2
MaxArg == 2

Step == 5
JetY == 200
DelayMs == 30

Colors == {"BLACK", "BLUE", "WHITE"}

\* The values getmaxx() may return: every small width, and the width of
\* the 800-pixel scenario.
Widths == (0..MaxW) \cup {800}
Heights == {479}

\* Arguments of drawJet exercised on its own.
ArgXs == ((0 - MaxArg)..MaxArg) \cup {795}
ArgYs == ((0 - MaxArg)..MaxArg) \cup {200}

CeilDiv(a, b) == (a + b - 1) \div b

(***************************************************************************)
(* The graphics library.                                                   *)
(***************************************************************************)
\* Before initgraph: no surface.
NoGraph ==
  [result |-> "grNoInitGraph", open |-> FALSE, color |-> "WHITE",
   fill |-> [pat |-> "SOLID_FILL", col |-> "WHITE"], bk |-> "BLACK",
   surface |-> <<>>]

\* After a successful initgraph: the library defaults.
GraphDefaults ==
  [result |-> "grOk", open |-> TRUE, color |-> "WHITE",
   fill |-> [pat |-> "SOLID_FILL", col |-> "WHITE"], bk |-> "BLACK",
   surface |-> <<>>]

Call(op, a, b, c, d, col, pat) ==
  [op |-> op, a |-> a, b |-> b, c |-> c, d |-> d, col |-> col, pat |-> pat]

Prim(op, a, b, c, d, col, pat, fcol) ==
  [op |-> op, a |-> a, b |-> b, c |-> c, d |-> d,
   col |-> col, pat |-> pat, fcol |-> fcol]

\* The effect of one library call on the library's state.  A call issued
\* while no surface is held leaves nothing behind.
Exec(gg, c) ==
  IF ~gg.open THEN gg
  ELSE CASE c.op = "setcolor" -> [gg EXCEPT !.color = c.col]
         [] c.op = "setfillstyle" ->
              [gg EXCEPT !.fill = [pat |-> c.pat, col |-> c.col]]
         [] c.op = "setbkcolor" -> [gg EXCEPT !.bk = c.col]
         [] c.op = "cleardevice" -> [gg EXCEPT !.surface = <<>>]
         [] c.op \in {"rectangle", "line", "outtextxy"} ->
              [gg EXCEPT !.surface =
                 Append(@, Prim(c.op, c.a, c.b, c.c, c.d, gg.color, "none", "none"))]
         [] c.op = "floodfill" ->
              [gg EXCEPT !.surface =
                 Append(@, Prim(c.op, c.a, c.b, c.c, c.d, c.col,
                                gg.fill.pat, gg.fill.col))]
         [] c.op = "fillellipse" ->
              [gg EXCEPT !.surface =
                 Append(@, Prim(c.op, c.a, c.b, c.c, c.d, gg.color,
                                gg.fill.pat, gg.fill.col))]
         [] OTHER -> gg

(***************************************************************************)
(* drawJet(x, y): its i-th statement, and the whole call.                  *)
(***************************************************************************)
JetStmts(px, py) ==
  << Call("setcolor", 0, 0, 0, 0, "WHITE", "none"),
     Call("setfillstyle", 0, 0, 0, 0, "WHITE", "SOLID_FILL"),
     Call("rectangle", px, py, px + 100, py + 20, "none", "none"),
     Call("floodfill", px + 1, py + 1, 0, 0, "WHITE", "none"),
     Call("line", px + 100, py + 10, px + 120, py, "none", "none"),
     Call("line", px + 100, py + 10, px + 120, py + 20, "none", "none"),
     Call("line", px, py, px - 20, py + 10, "none", "none"),
     Call("line", px - 20, py + 10, px, py + 20, "none", "none"),
     Call("setfillstyle", 0, 0, 0, 0, "BLUE", "SOLID_FILL"),
     Call("fillellipse", px + 30, py + 10, 5, 5, "none", "none"),
     Call("fillellipse", px + 50, py + 10, 5, 5, "none", "none") >>

\* Mutant: the second fillellipse is drawn before the last line of the nose.
StmtEllipseBeforeLine(i, px, py) ==
  JetStmts(px, py)[IF i = 8 THEN 11 ELSE IF i = 11 THEN 8 ELSE i]

\* Mutant: drawJet does not set the fill style before the body is filled.
StmtNoFillReset(i, px, py) ==
  IF i = 2 THEN Call("setcolor", 0, 0, 0, 0, "WHITE", "none")
  ELSE JetStmts(px, py)[i]

Stmt(i, px, py) == JetStmts(px, py)[i]

NStmts == Len(JetStmts(0, 0))

RECURSIVE RunStmts(_, _, _, _)
RunStmts(gg, i, px, py) ==
  IF i > NStmts THEN gg
  ELSE RunStmts(Exec(gg, Stmt(i, px, py)), i + 1, px, py)

DrawJet(gg, px, py) == RunStmts(gg, 1, px, py)

(***************************************************************************)
(* main().                                                                 *)
(***************************************************************************)
\* One entry of the history of main's calls: the call, the source line
\* that issued it, and whether a surface was held when it returned.
Entry(op, a, b, line, open) ==
  [op |-> op, a |-> a, b |-> b, line |-> line, open |-> open]

Init ==
  /\ pc = "initgraph"
  /\ x = 0
  /\ W \in Widths
  /\ H \in Heights
  /\ g = NoGraph
  /\ log = <<>>
  /\ calls = <<>>
  /\ djpc = 0
  /\ jx = 0
  /\ jy = 0
  /\ kbuf = 0
  /\ pressed = 0
  /\ keyInLoop = FALSE
  /\ exitCode = <<>>
  /\ first = <<>>

\* line 31: initgraph(&gd, &gm, "") acquires the surface, or fails and
\* leaves the error in graphresult().  main does not look at the result.
InitGraph ==
  /\ pc = "initgraph"
  /\ \E ok \in BOOLEAN :
       /\ g' = IF ok THEN GraphDefaults
                     ELSE [NoGraph EXCEPT !.result = "grNotDetected"]
       /\ log' = Append(log, Entry("initgraph", 0, 0, 31, ok))
  /\ pc' = "setbkcolor"
  /\ UNCHANGED <<x, W, H, calls, djpc, jx, jy, kbuf, pressed, keyInLoop, exitCode, first>>

\* line 34: setbkcolor(BLUE)
SetBkColor ==
  /\ pc = "setbkcolor"
  /\ g' = Exec(g, Call("setbkcolor", 0, 0, 0, 0, "BLUE", "none"))
  /\ log' = Append(log, Entry("setbkcolor", 0, 0, 34, g.open))
  /\ pc' = "cleardevice"
  /\ UNCHANGED <<x, W, H, calls, djpc, jx, jy, kbuf, pressed, keyInLoop, exitCode, first>>

\* A library that finds itself called without a surface may end the
\* process at that first call instead of returning.
BgiAbort ==
  /\ pc = "setbkcolor"
  /\ ~g.open
  /\ pc' = "aborted"
  /\ UNCHANGED <<x, W, H, g, log, calls, djpc, jx, jy, kbuf, pressed, keyInLoop, exitCode, first>>

\* line 35: cleardevice()
ClearDevice ==
  /\ pc = "cleardevice"
  /\ g' = Exec(g, Call("cleardevice", 0, 0, 0, 0, "none", "none"))
  /\ log' = Append(log, Entry("cleardevice", 0, 0, 35, g.open))
  /\ pc' = "for_init"
  /\ UNCHANGED <<x, W, H, calls, djpc, jx, jy, kbuf, pressed, keyInLoop, exitCode, first>>

\* line 38: int x = 0
ForInit ==
  /\ pc = "for_init"
  /\ x' = 0
  /\ pc' = "for_test"
  /\ UNCHANGED <<W, H, g, log, calls, djpc, jx, jy, kbuf, pressed, keyInLoop, exitCode, first>>

\* Mutant: the loop test is x <= getmaxx().
ForTestInclusive ==
  /\ pc = "for_test"
  /\ log' = Append(log, Entry("getmaxx", W, 0, 38, g.open))
  /\ pc' = IF x <= W THEN "frame_clear" ELSE "outtextxy"
  /\ UNCHANGED <<x, W, H, g, calls, djpc, jx, jy, kbuf, pressed, keyInLoop, exitCode, first>>

\* Mutant: the loop also ends as soon as a key is waiting.
ForTestKeyExit ==
  /\ pc = "for_test"
  /\ log' = Append(log, Entry("getmaxx", W, 0, 38, g.open))
  /\ pc' = IF x < W /\ kbuf = 0 THEN "frame_clear" ELSE "outtextxy"
  /\ UNCHANGED <<x, W, H, g, calls, djpc, jx, jy, kbuf, pressed, keyInLoop, exitCode, first>>

\* line 38: x < getmaxx()
ForTest ==
  /\ pc = "for_test"
  /\ log' = Append(log, Entry("getmaxx", W, 0, 38, g.open))
  /\ pc' = IF x < W THEN "frame_clear" ELSE "outtextxy"
  /\ UNCHANGED <<x, W, H, g, calls, djpc, jx, jy, kbuf, pressed, keyInLoop, exitCode, first>>

\* Mutant: the frame is not cleared.
FrameClearMissing ==
  /\ pc = "frame_clear"
  /\ pc' = "drawJet"
  /\ UNCHANGED <<x, W, H, g, log, calls, djpc, jx, jy, kbuf, pressed, keyInLoop, exitCode, first>>

\* line 39: cleardevice()
FrameClear ==
  /\ pc = "frame_clear"
  /\ g' = Exec(g, Call("cleardevice", 0, 0, 0, 0, "none", "none"))
  /\ log' = Append(log, Entry("cleardevice", 0, 0, 39, g.open))
  /\ pc' = "drawJet"
  /\ UNCHANGED <<x, W, H, calls, djpc, jx, jy, kbuf, pressed, keyInLoop, exitCode, first>>

\* line 40: drawJet(x, 200), the call
CallDrawJet ==
  /\ pc = "drawJet"
  /\ jx' = x
  /\ jy' = JetY
  /\ djpc' = 1
  /\ calls' = <<>>
  /\ log' = Append(log, Entry("drawJet", x, JetY, 40, g.open))
  /\ pc' = "in_drawJet"
  /\ UNCHANGED <<x, W, H, g, kbuf, pressed, keyInLoop, exitCode, first>>

\* lines 8-26: the next statement of drawJet; after the last, return
DrawJetStmt ==
  /\ pc = "in_drawJet"
  /\ g' = Exec(g, Stmt(djpc, jx, jy))
  /\ calls' = Append(calls, Stmt(djpc, jx, jy))
  /\ djpc' = djpc + 1
  /\ pc' = IF djpc = NStmts THEN "delay" ELSE "in_drawJet"
  /\ UNCHANGED <<x, W, H, log, jx, jy, kbuf, pressed, keyInLoop, exitCode, first>>

\* line 41: delay(30)
Delay ==
  /\ pc = "delay"
  /\ log' = Append(log, Entry("delay", DelayMs, 0, 41, g.open))
  /\ pc' = "for_incr"
  /\ UNCHANGED <<x, W, H, g, calls, djpc, jx, jy, kbuf, pressed, keyInLoop, exitCode, first>>

\* Mutant: the loop steps by 1.
ForIncrByOne ==
  /\ pc = "for_incr"
  /\ x' = x + 1
  /\ pc' = "for_test"
  /\ UNCHANGED <<W, H, g, log, calls, djpc, jx, jy, kbuf, pressed, keyInLoop, exitCode, first>>

\* line 38: x += 5
ForIncr ==
  /\ pc = "for_incr"
  /\ x' = x + Step
  /\ pc' = "for_test"
  /\ UNCHANGED <<W, H, g, log, calls, djpc, jx, jy, kbuf, pressed, keyInLoop, exitCode, first>>

\* Mutant: the prompt is shown and the program goes on without waiting.
OutTextXYNoWait ==
  /\ pc = "outtextxy"
  /\ \E xFirst \in BOOLEAN :
       LET ex == Entry("getmaxx", W, 0, 45, g.open)
           ey == Entry("getmaxy", H, 0, 45, g.open)
           args == IF xFirst THEN <<ex, ey>> ELSE <<ey, ex>>
       IN log' = Append(log \o args,
                        Entry("outtextxy", W \div 2 - 100, H - 30, 45, g.open))
  /\ g' = Exec(g, Call("outtextxy", W \div 2 - 100, H - 30, 0, 0, "none", "none"))
  /\ pc' = "closegraph"
  /\ UNCHANGED <<x, W, H, calls, djpc, jx, jy, kbuf, pressed, keyInLoop, exitCode, first>>

\* line 45: outtextxy(getmaxx() / 2 - 100, getmaxy() - 30, "Press any key
\* to exit...").  The two arguments are evaluated in either order.
OutTextXY ==
  /\ pc = "outtextxy"
  /\ \E xFirst \in BOOLEAN :
       LET ex == Entry("getmaxx", W, 0, 45, g.open)
           ey == Entry("getmaxy", H, 0, 45, g.open)
           args == IF xFirst THEN <<ex, ey>> ELSE <<ey, ex>>
       IN log' = Append(log \o args,
                        Entry("outtextxy", W \div 2 - 100, H - 30, 45, g.open))
  /\ g' = Exec(g, Call("outtextxy", W \div 2 - 100, H - 30, 0, 0, "none", "none"))
  /\ pc' = "getch"
  /\ UNCHANGED <<x, W, H, calls, djpc, jx, jy, kbuf, pressed, keyInLoop, exitCode, first>>

\* Mutant: the input read does not block on an empty buffer.
GetchNonBlocking ==
  /\ pc = "getch"
  /\ kbuf' = IF kbuf > 0 THEN kbuf - 1 ELSE 0
  /\ log' = Append(log, Entry("getch", 0, 0, 46, g.open))
  /\ pc' = "closegraph"
  /\ UNCHANGED <<x, W, H, g, calls, djpc, jx, jy, pressed, keyInLoop, exitCode, first>>

\* line 46: getch() returns once the keyboard buffer holds a key, and
\* takes that key out of it.
Getch ==
  /\ pc = "getch"
  /\ kbuf > 0
  /\ kbuf' = kbuf - 1
  /\ log' = Append(log, Entry("getch", 0, 0, 46, g.open))
  /\ pc' = "closegraph"
  /\ UNCHANGED <<x, W, H, g, calls, djpc, jx, jy, pressed, keyInLoop, exitCode, first>>

\* line 47: closegraph()
CloseGraph ==
  /\ pc = "closegraph"
  /\ g' = [g EXCEPT !.open = FALSE, !.surface = <<>>]
  /\ log' = Append(log, Entry("closegraph", 0, 0, 47, FALSE))
  /\ pc' = "return"
  /\ UNCHANGED <<x, W, H, calls, djpc, jx, jy, kbuf, pressed, keyInLoop, exitCode, first>>

\* line 48: return 0
Return ==
  /\ pc = "return"
  /\ exitCode' = <<0>>
  /\ pc' = "exited"
  /\ UNCHANGED <<x, W, H, g, log, calls, djpc, jx, jy, kbuf, pressed, keyInLoop, first>>

\* The user presses a key while the process runs: it is buffered.
\* keyInLoop remembers that a key arrived while the loop was running.
KeyPress ==
  /\ pc \in {"initgraph", "setbkcolor", "cleardevice", "for_init", "for_test",
             "frame_clear", "drawJet", "in_drawJet", "delay", "for_incr",
             "outtextxy", "getch", "closegraph", "return"}
  /\ pressed < MaxKeys
  /\ pressed' = pressed + 1
  /\ kbuf' = kbuf + 1
  /\ keyInLoop' = (keyInLoop \/ pc \in {"for_test", "frame_clear", "drawJet",
                                       "in_drawJet", "delay", "for_incr"})
  /\ UNCHANGED <<pc, x, W, H, g, log, calls, djpc, jx, jy, exitCode, first>>

Main ==
  \/ InitGraph
  \/ SetBkColor
  \/ BgiAbort
  \/ ClearDevice
  \/ ForInit
  \/ ForTest
  \/ FrameClear
  \/ CallDrawJet
  \/ DrawJetStmt
  \/ Delay
  \/ ForIncr
  \/ OutTextXY
  \/ Getch
  \/ CloseGraph
  \/ Return

Next == Main \/ KeyPress

Spec == Init /\ [][Next]_vars

\* The process is scheduled: a step of main that can be taken is taken.
FairSpec == Init /\ [][Next]_vars /\ WF_vars(Main)

(***************************************************************************)
(* drawJet on its own: on a freshly cleared surface, with any draw colour  *)
(* and fill colour in effect, drawJet(jx, jy) is called, the surface is    *)
(* cleared, and drawJet(jx, jy) is called again.  first keeps the surface  *)
(* the first call left.                                                    *)
(***************************************************************************)
IdemInit ==
  /\ pc = "t_call1"
  /\ jx \in ArgXs
  /\ jy \in ArgYs
  /\ \E c \in Colors, f \in Colors :
       g = [GraphDefaults EXCEPT !.color = c, !.fill.col = f, !.bk = "BLUE"]
  /\ x = 0
  /\ W = 0
  /\ H = 0
  /\ log = <<>>
  /\ calls = <<>>
  /\ djpc = 0
  /\ kbuf = 0
  /\ pressed = 0
  /\ keyInLoop = FALSE
  /\ exitCode = <<>>
  /\ first = <<>>

TestCall1 ==
  /\ pc = "t_call1"
  /\ g' = DrawJet(g, jx, jy)
  /\ first' = g'.surface
  /\ pc' = "t_clear"
  /\ UNCHANGED <<x, W, H, log, calls, djpc, jx, jy, kbuf, pressed, keyInLoop, exitCode>>

TestClear ==
  /\ pc = "t_clear"
  /\ g' = Exec(g, Call("cleardevice", 0, 0, 0, 0, "none", "none"))
  /\ pc' = "t_call2"
  /\ UNCHANGED <<x, W, H, log, calls, djpc, jx, jy, kbuf, pressed, keyInLoop, exitCode, first>>

TestCall2 ==
  /\ pc = "t_call2"
  /\ g' = DrawJet(g, jx, jy)
  /\ pc' = "t_done"
  /\ UNCHANGED <<x, W, H, log, calls, djpc, jx, jy, kbuf, pressed, keyInLoop, exitCode, first>>

IdemNext == TestCall1 \/ TestClear \/ TestCall2

SpecIdem == IdemInit /\ [][IdemNext]_vars

(***************************************************************************)
(* Vocabulary of the properties.                                           *)
(***************************************************************************)
InLoop ==
  pc \in {"for_test", "frame_clear", "drawJet", "in_drawJet", "delay", "for_incr"}

AfterLoop == pc \in {"outtextxy", "getch", "closegraph", "return", "exited"}

Count(op) == Cardinality({i \in DOMAIN log : log[i].op = op})

IndexOf(op) == CHOOSE i \in DOMAIN log : log[i].op = op

IsDrawJet(e) == e.op = "drawJet"

\* The drawJet calls main has issued, oldest first.
Frames == SelectSeq(log, IsDrawJet)

NumFrames == Len(Frames)

IsFrameEntry(e) == e.line \in {39, 40, 41}

\* The calls issued by the loop body (lines 39-41), oldest first.
FrameLog == SelectSeq(log, IsFrameEntry)

\* Whether a surface was held when the i-th call of the history was issued.
HeldBefore(i) == IF i = 1 THEN FALSE ELSE log[i - 1].open

GraphicsOps ==
  {"setbkcolor", "cleardevice", "getmaxx", "getmaxy", "drawJet", "outtextxy",
   "closegraph"}

IsDrawing(c) == c.op \notin {"setcolor", "setfillstyle"}

\* The drawing calls (everything but the attribute setters) of the active
\* drawJet call, as their names.
DrawOps ==
  LET d == SelectSeq(calls, IsDrawing) IN [i \in 1..Len(d) |-> d[i].op]

JetOrder ==
  <<"rectangle", "floodfill", "line", "line", "line", "line",
    "fillellipse", "fillellipse">>

PromptsOnSurface ==
  Cardinality({i \in DOMAIN g.surface : g.surface[i].op = "outtextxy"})

(***************************************************************************)
(* C1.  The loop terminates, after exactly ceil(W / 5) iterations: it      *)
(* never runs more, once it is over it has run exactly that many and       *)
(* x >= W, and every run that enters the loop leaves it.  For W = 800 that *)
(* is 160 iterations, the last with x = 795; for W = 0 none.               *)
(***************************************************************************)
C1_Count ==
  /\ NumFrames <= CeilDiv(W, Step)
  /\ AfterLoop => NumFrames = CeilDiv(W, Step) /\ x >= W
  /\ (AfterLoop /\ W = 800) => NumFrames = 160 /\ Frames[160].a = 795
  /\ (AfterLoop /\ W = 0) => NumFrames = 0

C1_LoopTerminates ==
  /\ []C1_Count
  /\ (pc = "for_init") ~> (pc = "outtextxy")

C1_Witness ==
  /\ pc = "outtextxy"
  /\ W = 800
  /\ NumFrames = 160
  /\ Frames[NumFrames].a = 795

(***************************************************************************)
(* C2.  A call drawJet(x, 200) of the loop issues one rectangle, the flood *)
(* fill, four lines and two filled ellipses, in that order, and no other   *)
(* drawing call.                                                           *)
(***************************************************************************)
C2_JetPrimitives ==
  /\ pc \in {"in_drawJet", "delay"} =>
       /\ jx = x /\ jy = JetY
       /\ Len(DrawOps) <= Len(JetOrder)
       /\ DrawOps = SubSeq(JetOrder, 1, Len(DrawOps))
  /\ pc = "delay" => DrawOps = JetOrder

C2_Witness ==
  /\ pc = "delay"
  /\ x = 795
  /\ DrawOps = JetOrder
  /\ Len(calls) = NStmts

(***************************************************************************)
(* C3.  When drawJet starts, the surface is clear, and at the end of the   *)
(* frame the surface holds what drawJet(x, 200) leaves on a cleared        *)
(* surface and nothing else: eight primitives, none of an earlier frame.   *)
(***************************************************************************)
C3_FrameCleared ==
  /\ (pc = "drawJet" \/ (pc = "in_drawJet" /\ djpc = 1)) => g.surface = <<>>
  /\ pc = "delay" =>
       /\ g.surface =
            DrawJet(Exec(g, Call("cleardevice", 0, 0, 0, 0, "none", "none")),
                    x, JetY).surface
       /\ g.open => Len(g.surface) = Len(JetOrder)

C3_Witness ==
  /\ pc = "delay"
  /\ x = 10
  /\ g.open
  /\ Len(g.surface) = Len(JetOrder)
  /\ g.surface[1].a = 10

(***************************************************************************)
(* C4.  After a failed initgraph the process stops: main issues no         *)
(* further call.                                                           *)
(***************************************************************************)
C4_FailedInitStops ==
  g.result = "grNotDetected" =>
    /\ Len(log) = 1
    /\ pc \in {"setbkcolor", "aborted"}

(***************************************************************************)
(* C5.  No prompt and no input wait before the loop is over; a run that    *)
(* exits has issued exactly one prompt and then exactly one input wait,    *)
(* both after the last frame, and exits with code 0.  While the surface is *)
(* held, the prompt is on it once.                                         *)
(***************************************************************************)
C5_PromptThenWait ==
  /\ Count("outtextxy") <= 1
  /\ Count("getch") <= 1
  /\ ~AfterLoop => Count("outtextxy") = 0 /\ Count("getch") = 0
  /\ pc = "outtextxy" => Count("outtextxy") = 0 /\ Count("getch") = 0
  /\ pc = "getch" =>
       /\ Count("outtextxy") = 1 /\ Count("getch") = 0
       /\ g.open => PromptsOnSurface = 1
  /\ Count("getch") = 1 =>
       /\ Count("outtextxy") = 1
       /\ IndexOf("outtextxy") < IndexOf("getch")
       /\ \A i \in DOMAIN log : IsFrameEntry(log[i]) => i < IndexOf("outtextxy")
  /\ pc = "exited" => Count("getch") = 1 /\ exitCode = <<0>>
  /\ exitCode # <<>> => pc = "exited"

C5_Witness ==
  /\ pc = "exited"
  /\ W = 800
  /\ g.result = "grOk"
  /\ Count("outtextxy") = 1
  /\ Count("getch") = 1
  /\ exitCode = <<0>>

(***************************************************************************)
(* C6.  The surface is acquired exactly once and released exactly once,    *)
(* the release comes after the input wait, and every graphics call is      *)
(* issued while the surface is held.                                       *)
(***************************************************************************)
C6_AcquireOnceReleaseOnce ==
  /\ \A i \in DOMAIN log : log[i].op \in GraphicsOps => HeldBefore(i)
  /\ \A i \in DOMAIN log : log[i].op = "initgraph" => i = 1
  /\ Count("closegraph") <= 1
  /\ Count("closegraph") = 1 =>
       Count("getch") = 1 /\ IndexOf("getch") < IndexOf("closegraph")
  /\ pc = "exited" =>
       /\ Cardinality({i \in DOMAIN log : log[i].op = "initgraph" /\ log[i].open}) = 1
       /\ Cardinality({i \in DOMAIN log : log[i].op = "closegraph" /\ HeldBefore(i)}) = 1

(***************************************************************************)
(* C7.  On a cleared surface, the second drawJet(x, y) leaves the surface  *)
(* the first one left, whatever draw colour and fill the first one ran     *)
(* with.                                                                   *)
(***************************************************************************)
C7_Idempotent == pc = "t_done" => g.surface = first

C7_Witness ==
  /\ pc = "t_done"
  /\ jx = 795
  /\ jy = 200
  /\ Len(first) = Len(JetOrder)
  /\ g.surface = first
  /\ g.fill.col = "BLUE"

(***************************************************************************)
(* C8.  The process blocked in getch with an empty keyboard buffer stays   *)
(* there as long as no key arrives, and closegraph and the exit are        *)
(* reached only after a key was received and taken by that one getch.      *)
(***************************************************************************)
C8_StaysBlocked ==
  (pc = "getch" /\ kbuf = 0 /\ pressed' = pressed) => pc' = "getch"

C8_ExitNeedsKey ==
  pc \in {"closegraph", "return", "exited"} =>
    /\ pressed >= 1
    /\ Count("getch") = 1
    /\ kbuf = pressed - 1

C9_XStep == x' = x \/ (pc = "for_incr" /\ x' = x + 5)

C9_XInRange ==
  /\ (pc = "for_test" /\ NumFrames = 0) => x = 0
  /\ pc \in {"drawJet", "in_drawJet"} => 0 <= x /\ x < W /\ x % 5 = 0
  /\ pc = "in_drawJet" => jx = x
  /\ x >= 0

C9_Monotone == [][C9_XStep]_vars /\ []C9_XInRange

C9_Witness ==
  /\ pc = "in_drawJet"
  /\ x = 795
  /\ jx = 795
  /\ djpc = 3

(***************************************************************************)
(* C10.  The calls of the loop body are, frame after frame, cleardevice,   *)
(* drawJet(5k, 200), delay(30) for k = 0, 1, 2, ...; when the loop is over *)
(* there are exactly ceil(W / 5) frames, whether or not keys arrived; and  *)
(* the loop takes no key out of the buffer.                                *)
(***************************************************************************)
C10_FramePattern ==
  LET fl == FrameLog
  IN \A i \in DOMAIN fl :
       LET k == (i - 1) \div 3
           e == fl[i]
       IN CASE i % 3 = 1 -> e.op = "cleardevice"
            [] i % 3 = 2 -> e.op = "drawJet" /\ e.a = 5 * k /\ e.b = 200
            [] i % 3 = 0 -> e.op = "delay" /\ e.a = 30

C10_NoSkipNoEarlyExit ==
  /\ C10_FramePattern
  /\ AfterLoop =>
       LET fl == FrameLog
       IN /\ Len(fl) = 3 * CeilDiv(W, 5)
          /\ \A k \in 0..(CeilDiv(W, 5) - 1) : 5 * k < W /\ fl[3 * k + 2].a = 5 * k
  /\ (InLoop \/ pc = "outtextxy") => Count("getch") = 0 /\ kbuf = pressed

C10_Witness ==
  /\ pc = "outtextxy"
  /\ W = 800
  /\ keyInLoop
  /\ kbuf = MaxKeys
  /\ Len(FrameLog) = 480

====
